---- MODULE Spec2Model ----
(***************************************************************************)
(* EcoFootprint carbon calculator (src/global.py).                         *)
(*                                                                         *)
(* Two specifications over one set of variables:                           *)
(*   Spec      the calculation engine called directly: an input record and *)
(*             a region are drawn from bounded sets, then                  *)
(*             calculate_carbon_footprint runs, then the recommendation    *)
(*             rules run on its result;                                    *)
(*   PageSpec  the Streamlit page: every user interaction reruns the whole *)
(*             script with the widgets' current values.                    *)
(*                                                                         *)
(* Arithmetic is fixed point.  Quantities are counted in halves (the LPG   *)
(* slider steps by 0.5), emission factors in hundredths (every factor of   *)
(* the tables has at most two decimals), so emissions are in 1/200 kg.     *)
(* The code computes in binary floating point; its rounding error is not   *)
(* modelled.                                                               *)
(***************************************************************************)
EXTENDS Integers, Sequences, FiniteSets, TLC

VARIABLES
    region,           \* page: value of the region radio, "Global" or "Africa"
    widgets,          \* page: the rendered input widgets' values (session state)
    input_data,       \* page: the dict the script builds from the widgets
    calculate_button, \* page: value of st.button in the last run
    valid_input,      \* page: value of valid_input in the last run
    pc,               \* engine: "input", "calculated", "recommended"; page: "page"
    data,             \* argument `data` of the last calculate_carbon_footprint call
    calc_region,      \* argument `region` of that call
    outcome,          \* "none" (not called), "ok" (returned), "KeyError" (raised)
    total,            \* returned total_kg_co2
    breakdown,        \* returned breakdown: sequence of <<category, value>>
    reads,            \* the table entries the call read: <<table, key>>
    recommendations   \* the sorted list of <<rule, saving>>

vars == <<region, widgets, input_data, calculate_button, valid_input, pc, data,
          calc_region, outcome, total, breakdown, reads, recommendations>>

----------------------------------------------------------------------------
(* Fixed point *)

\* n whole units as a quantity (halves)
Qty(n) == 2 * n

\* n kg as an emission value (1/200 kg)
Kg(n) == 200 * n

----------------------------------------------------------------------------
(* Emission factor tables, in hundredths *)

COUNTRY_GRID_MIX ==
    [c \in {"Select Country", "Nigeria (Gas-dominated)",
            "South Africa (Coal-dominated)", "Kenya (Geothermal/Hydro)",
            "Ghana (Hydro/Gas)", "Egypt (Gas-dominated)",
            "Ethiopia (Hydro-dominated)", "General Sub-Saharan Africa Avg"} |->
        CASE c = "Select Country" -> 0
          [] c = "Nigeria (Gas-dominated)" -> 55
          [] c = "South Africa (Coal-dominated)" -> 90
          [] c = "Kenya (Geothermal/Hydro)" -> 30
          [] c = "Ghana (Hydro/Gas)" -> 45
          [] c = "Egypt (Gas-dominated)" -> 60
          [] c = "Ethiopia (Hydro-dominated)" -> 5
          [] c = "General Sub-Saharan Africa Avg" -> 48]

GLOBAL_EMISSION_FACTORS ==
    [electricity |-> 50, natural_gas |-> 200, heating_oil |-> 268,
     propane |-> 150, car_gasoline |-> 31, car_diesel |-> 27,
     motorcycle |-> 11, bus |-> 11, train |-> 6, plane_short |-> 24,
     diet_meat_heavy |-> 330, diet_typical |-> 180, diet_meat_regular |-> 270,
     diet_average |-> 250, diet_vegetarian |-> 150, diet_vegan |-> 120,
     lpg_per_kg |-> 300]

diet_map ==
    [d \in {"Typical (Staples + some meat)", "Meat regularly", "Meat-Heavy",
            "Average", "Vegetarian", "Vegan"} |->
        CASE d = "Typical (Staples + some meat)" -> "diet_typical"
          [] d = "Meat regularly" -> "diet_meat_regular"
          [] d = "Meat-Heavy" -> "diet_meat_heavy"
          [] d = "Average" -> "diet_average"
          [] d = "Vegetarian" -> "diet_vegetarian"
          [] d = "Vegan" -> "diet_vegan"]

----------------------------------------------------------------------------
(* Python dict access *)

\* d.get(k, 0)
Get(d, k) == IF k \in DOMAIN d THEN d[k] ELSE 0

\* one statement's effect: ok = FALSE when it raised KeyError; items are the
\* breakdown entries it stored, rd the table entries it read
Stored(items, rd) == [ok |-> TRUE, items |-> items, rd |-> rd]
Raised(rd) == [ok |-> FALSE, items |-> <<>>, rd |-> rd]

\* a; b in sequence: b does not run when a raised
Then(a, b) ==
    IF a.ok
    THEN [ok |-> b.ok, items |-> a.items \o b.items, rd |-> a.rd \cup b.rd]
    ELSE a

RECURSIVE SumValues(_)
\* sum(breakdown.values())
SumValues(items) ==
    IF items = <<>> THEN 0 ELSE items[1][2] + SumValues(Tail(items))

----------------------------------------------------------------------------
(* Calculation engine: calculate_carbon_footprint(data, region) *)

\* the lookups and stores of the africa branch after the country's grid factor
\* was found
AfricaElectricity(d, factor, rd) ==
    IF "electricity_kwh" \notin DOMAIN d
    THEN Raised(rd)
    ELSE Then(Stored(<< <<"Housing: Electricity", d["electricity_kwh"] * factor * 12>> >>,
                     rd),
              IF "lpg_kg_per_month" \in DOMAIN d
              THEN Stored(<< <<"Housing: Cooking (LPG)",
                               d["lpg_kg_per_month"]
                                 * GLOBAL_EMISSION_FACTORS["lpg_per_kg"] * 12>> >>,
                          {<<"GLOBAL_EMISSION_FACTORS", "lpg_per_kg">>})
              ELSE Stored(<<>>, {}))

\* the country looked up, the fixed global electricity factor used
HousingAfrica_FixedFactor(d) ==
    IF "country" \notin DOMAIN d
    THEN Raised({})
    ELSE IF d["country"] \notin DOMAIN COUNTRY_GRID_MIX
    THEN Raised({<<"COUNTRY_GRID_MIX", d["country"]>>})
    ELSE AfricaElectricity(d, GLOBAL_EMISSION_FACTORS["electricity"],
                           {<<"COUNTRY_GRID_MIX", d["country"]>>,
                            <<"GLOBAL_EMISSION_FACTORS", "electricity">>})

\* Housing Calculations, region == "africa"
HousingAfrica(d) ==
    IF "country" \notin DOMAIN d
    THEN Raised({})
    ELSE IF d["country"] \notin DOMAIN COUNTRY_GRID_MIX
    THEN Raised({<<"COUNTRY_GRID_MIX", d["country"]>>})
    ELSE LET grid_factor == COUNTRY_GRID_MIX[d["country"]]
         IN  AfricaElectricity(d, grid_factor, {<<"COUNTRY_GRID_MIX", d["country"]>>})

\* Housing Calculations, any other region
HousingGlobal(d) ==
    IF "electricity_kwh" \notin DOMAIN d
    THEN Raised({})
    ELSE Stored(
           << <<"Housing: Electricity",
                d["electricity_kwh"] * GLOBAL_EMISSION_FACTORS["electricity"] * 12>>,
              <<"Housing: Natural Gas",
                Get(d, "natural_gas_therms") * GLOBAL_EMISSION_FACTORS["natural_gas"] * 12>>,
              <<"Housing: Heating Oil",
                Get(d, "heating_oil_liters") * GLOBAL_EMISSION_FACTORS["heating_oil"] * 12>>,
              <<"Housing: Propane",
                Get(d, "propane_liters") * GLOBAL_EMISSION_FACTORS["propane"] * 12>> >>,
           {<<"GLOBAL_EMISSION_FACTORS", k>> :
               k \in {"electricity", "natural_gas", "heating_oil", "propane"}})

\* Housing Calculations
Housing(d, r) == IF r = "africa" THEN HousingAfrica(d) ELSE HousingGlobal(d)

\* Transport Calculations (without flights)
Transport(d, r) ==
    IF r = "africa"
    THEN Stored(
           << <<"Transport: Car",
                (Get(d, "car_km_week") * 52) * GLOBAL_EMISSION_FACTORS["car_gasoline"]>>,
              <<"Transport: Motorcycle",
                (Get(d, "moto_km_week") * 52) * GLOBAL_EMISSION_FACTORS["motorcycle"]>>,
              <<"Transport: Bus/Minibus",
                (Get(d, "bus_km_week") * 52) * GLOBAL_EMISSION_FACTORS["bus"]>> >>,
           {<<"GLOBAL_EMISSION_FACTORS", k>> : k \in {"car_gasoline", "motorcycle", "bus"}})
    ELSE Stored(
           << <<"Transport: Car",
                Get(d, "car_miles_week") * GLOBAL_EMISSION_FACTORS["car_gasoline"] * 52>>,
              <<"Transport: Bus",
                Get(d, "bus_miles_week") * GLOBAL_EMISSION_FACTORS["bus"] * 52>>,
              <<"Transport: Train",
                Get(d, "train_miles_week") * GLOBAL_EMISSION_FACTORS["train"] * 52>> >>,
           {<<"GLOBAL_EMISSION_FACTORS", k>> : k \in {"car_gasoline", "bus", "train"}})

\* the hours subtracted from the 500 miles per hour instead of multiplied
Flights_Subtracted(d) ==
    IF "flight_hours" \notin DOMAIN d
    THEN Raised({})
    ELSE Stored(<< <<"Transport: Flights",
                     (Qty(500) - d["flight_hours"]) * GLOBAL_EMISSION_FACTORS["plane_short"]>> >>,
                {<<"GLOBAL_EMISSION_FACTORS", "plane_short">>})

\* breakdown["Transport: Flights"]
Flights(d) ==
    IF "flight_hours" \notin DOMAIN d
    THEN Raised({})
    ELSE Stored(<< <<"Transport: Flights",
                     d["flight_hours"] * 500 * GLOBAL_EMISSION_FACTORS["plane_short"]>> >>,
                {<<"GLOBAL_EMISSION_FACTORS", "plane_short">>})

\* Diet Calculation: the factor is per day, so 365 days count as a quantity
Diet(d) ==
    IF "diet" \notin DOMAIN d
    THEN Raised({})
    ELSE IF d["diet"] \notin DOMAIN diet_map
    THEN Raised({})
    ELSE LET diet_key == diet_map[d["diet"]]
         IN  Stored(<< <<"Diet", GLOBAL_EMISSION_FACTORS[diet_key] * Qty(365)>> >>,
                    {<<"GLOBAL_EMISSION_FACTORS", diet_key>>})

\* the statements of the function body in order
Body(d, r) == Then(Housing(d, r), Then(Transport(d, r), Then(Flights(d), Diet(d))))

\* the total accumulated without the first category
calculate_carbon_footprint_SkipFirst(d, r) ==
    LET b == Body(d, r)
    IN  IF b.ok
        THEN [outcome |-> "ok", total |-> SumValues(Tail(b.items)),
              breakdown |-> b.items, reads |-> b.rd]
        ELSE [outcome |-> "KeyError", total |-> 0, breakdown |-> <<>>, reads |-> b.rd]

\* the call's result: (total_kg_co2, breakdown) when it returns, nothing when
\* it raises
calculate_carbon_footprint(d, r) ==
    LET b == Body(d, r)
    IN  IF b.ok
        THEN [outcome |-> "ok", total |-> SumValues(b.items),
              breakdown |-> b.items, reads |-> b.rd]
        ELSE [outcome |-> "KeyError", total |-> 0, breakdown |-> <<>>, reads |-> b.rd]

\* breakdown_dict.get(k, 0)
BreakdownGet(b, k) ==
    IF \E i \in 1..Len(b) : b[i][1] = k
    THEN b[CHOOSE i \in 1..Len(b) : b[i][1] = k][2]
    ELSE 0

----------------------------------------------------------------------------
(* Recommendations *)

\* "Meat" in label
ContainsMeat(label) == label \in {"Meat regularly", "Meat-Heavy"}

\* the diet rule with a threshold of 200
Rules_LowDietThreshold(b, d, r) ==
    (IF BreakdownGet(b, "Transport: Car") > Kg(2000) THEN << <<"car", 400>> >> ELSE <<>>)
    \o (IF BreakdownGet(b, "Housing: Electricity") > Kg(1500)
        THEN << <<"electricity", 500>> >> ELSE <<>>)
    \o (IF r = "africa" /\ BreakdownGet(b, "Housing: Cooking (LPG)") > Kg(500)
        THEN << <<"lpg", 100>> >> ELSE <<>>)
    \o (IF BreakdownGet(b, "Diet") > Kg(200) /\ ContainsMeat(d["diet"])
        THEN << <<"diet", 200>> >> ELSE <<>>)

\* the list in emission order, before the sort
Rules(b, d, r) ==
    (IF BreakdownGet(b, "Transport: Car") > Kg(2000) THEN << <<"car", 400>> >> ELSE <<>>)
    \o (IF BreakdownGet(b, "Housing: Electricity") > Kg(1500)
        THEN << <<"electricity", 500>> >> ELSE <<>>)
    \o (IF r = "africa" /\ BreakdownGet(b, "Housing: Cooking (LPG)") > Kg(500)
        THEN << <<"lpg", 100>> >> ELSE <<>>)
    \o (IF BreakdownGet(b, "Diet") > Kg(2000) /\ ContainsMeat(d["diet"])
        THEN << <<"diet", 200>> >> ELSE <<>>)

\* x placed after every element whose saving is at least x's (stable, descending)
InsertDesc(sorted, x) ==
    LET n == Cardinality({i \in 1..Len(sorted) : sorted[i][2] >= x[2]})
    IN  SubSeq(sorted, 1, n) \o <<x>> \o SubSeq(sorted, n + 1, Len(sorted))

RECURSIVE SortFrom(_, _)
SortFrom(sorted, rest) ==
    IF rest = <<>> THEN sorted ELSE SortFrom(InsertDesc(sorted, rest[1]), Tail(rest))

\* the sort left out
SortBySaving_Unsorted(recs) == recs

\* recommendations.sort(key=lambda x: x[1], reverse=True)
SortBySaving(recs) == SortFrom(<<>>, recs)

----------------------------------------------------------------------------
(* The page script *)

\* the positions a slider(min, max, default) is moved between: where it
\* starts and its upper end
SliderPositions(min, max, default) == {Qty(default), Qty(max)}

\* region.lower()
Lower(r) == CASE r = "Global" -> "global" [] r = "Africa" -> "africa"

\* the widgets the script renders for a region
WidgetNames(r) ==
    IF Lower(r) = "africa"
    THEN {"country", "electricity_kwh", "cylinder_size", "cylinder_quantity",
          "car_km_week", "moto_km_week", "bus_km_week", "flight_hours", "diet"}
    ELSE {"electricity_kwh", "natural_gas_therms", "heating_oil_liters",
          "propane_liters", "car_miles_week", "flight_hours", "bus_miles_week",
          "train_miles_week", "diet"}

\* the values the user can give a widget; cylinder_quantity is a slider from
\* 0.0 to 10.0 that starts at 0.5, already in halves
Options(r, w) ==
    IF Lower(r) = "africa"
    THEN CASE w = "country" -> DOMAIN COUNTRY_GRID_MIX
           [] w = "electricity_kwh" -> SliderPositions(0, 600, 100)
           [] w = "cylinder_size" -> {3, 6, 12, 15, 45}
           [] w = "cylinder_quantity" -> {1, 20}
           [] w = "car_km_week" -> SliderPositions(0, 400, 0)
           [] w = "moto_km_week" -> SliderPositions(0, 200, 0)
           [] w = "bus_km_week" -> SliderPositions(0, 300, 50)
           [] w = "flight_hours" -> SliderPositions(0, 50, 0)
           [] w = "diet" -> {"Typical (Staples + some meat)", "Meat regularly",
                             "Vegetarian", "Vegan"}
    ELSE CASE w = "electricity_kwh" -> SliderPositions(0, 2000, 300)
           [] w = "natural_gas_therms" -> SliderPositions(0, 200, 40)
           [] w = "heating_oil_liters" -> SliderPositions(0, 500, 0)
           [] w = "propane_liters" -> SliderPositions(0, 500, 0)
           [] w = "car_miles_week" -> SliderPositions(0, 500, 100)
           [] w = "flight_hours" -> SliderPositions(0, 100, 5)
           [] w = "bus_miles_week" -> SliderPositions(0, 500, 20)
           [] w = "train_miles_week" -> SliderPositions(0, 500, 10)
           [] w = "diet" -> {"Meat-Heavy", "Average", "Vegetarian", "Vegan"}

\* the value a widget has when it is first rendered: a slider's default, a
\* selectbox's first option
Default(r, w) ==
    IF Lower(r) = "africa"
    THEN CASE w = "country" -> "Select Country"
           [] w = "electricity_kwh" -> Qty(100)
           [] w = "cylinder_size" -> 3
           [] w = "cylinder_quantity" -> 1
           [] w = "car_km_week" -> Qty(0)
           [] w = "moto_km_week" -> Qty(0)
           [] w = "bus_km_week" -> Qty(50)
           [] w = "flight_hours" -> Qty(0)
           [] w = "diet" -> "Typical (Staples + some meat)"
    ELSE CASE w = "electricity_kwh" -> Qty(300)
           [] w = "natural_gas_therms" -> Qty(40)
           [] w = "heating_oil_liters" -> Qty(0)
           [] w = "propane_liters" -> Qty(0)
           [] w = "car_miles_week" -> Qty(100)
           [] w = "flight_hours" -> Qty(5)
           [] w = "bus_miles_week" -> Qty(20)
           [] w = "train_miles_week" -> Qty(10)
           [] w = "diet" -> "Meat-Heavy"

Defaults(r) == [w \in WidgetNames(r) |-> Default(r, w)]

\* input_data as the script fills it from the widgets
InputData(r, w) ==
    IF Lower(r) = "africa"
    THEN [k \in {"country", "electricity_kwh", "lpg_kg_per_month", "car_km_week",
                 "moto_km_week", "bus_km_week", "flight_hours", "diet"} |->
            IF k = "lpg_kg_per_month"
            THEN w["cylinder_size"] * w["cylinder_quantity"]
            ELSE w[k]]
    ELSE [k \in {"electricity_kwh", "natural_gas_therms", "heating_oil_liters",
                 "propane_liters", "car_miles_week", "flight_hours",
                 "bus_miles_week", "train_miles_week", "diet"} |-> w[k]]

\* the region compared in lower case, which the radio's value never is
ValidInput_LowerCase(r, d) ==
    r # "africa"
    \/ (r = "africa" /\ (IF "country" \in DOMAIN d THEN d["country"] # "Select Country"
                         ELSE TRUE))

\* valid_input
ValidInput(r, d) ==
    r # "Africa"
    \/ (r = "Africa" /\ (IF "country" \in DOMAIN d THEN d["country"] # "Select Country"
                         ELSE TRUE))

\* one run of the script: r and w are the widgets' values, button the value
\* st.button returns in this run
Script(r, w, button) ==
    LET d == InputData(r, w)
        valid == ValidInput(r, d)
        res == calculate_carbon_footprint(d, Lower(r))
    IN  /\ region' = r
        /\ widgets' = w
        /\ input_data' = d
        /\ calculate_button' = button
        /\ valid_input' = valid
        /\ pc' = "page"
        /\ IF button /\ valid
           THEN /\ data' = d
                /\ calc_region' = Lower(r)
                /\ outcome' = res.outcome
                /\ total' = res.total
                /\ breakdown' = res.breakdown
                /\ reads' = res.reads
                /\ recommendations' =
                     IF res.outcome = "ok"
                     THEN SortBySaving(Rules(res.breakdown, d, Lower(r)))
                     ELSE <<>>
           ELSE /\ data' = <<>>
                /\ calc_region' = "none"
                /\ outcome' = "none"
                /\ total' = 0
                /\ breakdown' = <<>>
                /\ reads' = {}
                /\ recommendations' = <<>>

\* the first run: the radio shows its first option, nothing was pressed
PageInit ==
    /\ region = "Global"
    /\ widgets = Defaults("Global")
    /\ input_data = InputData("Global", Defaults("Global"))
    /\ calculate_button = FALSE
    /\ valid_input = ValidInput("Global", InputData("Global", Defaults("Global")))
    /\ pc = "page"
    /\ data = <<>>
    /\ calc_region = "none"
    /\ outcome = "none"
    /\ total = 0
    /\ breakdown = <<>>
    /\ reads = {}
    /\ recommendations = <<>>

\* the radio is moved: the other region's widgets are rendered afresh (Streamlit
\* drops the state of a widget a run does not render)
SelectRegion(r) ==
    /\ pc = "page"
    /\ r # region
    /\ Script(r, Defaults(r), FALSE)

\* the country selectbox is changed
SelectCountry(c) ==
    /\ pc = "page"
    /\ "country" \in DOMAIN widgets
    /\ c # widgets["country"]
    /\ Script(region, [widgets EXCEPT !["country"] = c], FALSE)

\* a slider is moved, or the cylinder or diet selectbox changed
SetWidget(w, v) ==
    /\ pc = "page"
    /\ w \in DOMAIN widgets
    /\ w # "country"
    /\ v # widgets[w]
    /\ Script(region, [widgets EXCEPT ![w] = v], FALSE)

\* the calculate button is pressed
PressButton ==
    /\ pc = "page"
    /\ Script(region, widgets, TRUE)

PageNext ==
    \/ \E r \in {"Global", "Africa"} : SelectRegion(r)
    \/ \E c \in DOMAIN COUNTRY_GRID_MIX : SelectCountry(c)
    \/ \E w \in DOMAIN widgets \ {"country"} : \E v \in Options(region, w) : SetWidget(w, v)
    \/ PressButton

PageSpec == PageInit /\ [][PageNext]_vars

----------------------------------------------------------------------------
(* The engine called directly *)

\* a numeric field holds a multiple of QtyStep units, from -1 to MaxQty steps
QtyStep == 300
MaxQty == 1
\* at most MaxVaried fields of a record differ from the baseline record
MaxVaried == 2

Quantities == {Qty(q * QtyStep) : q \in -1..MaxQty}

\* the numeric fields the calculator looks up for a region
NumericFields(r) ==
    IF r = "africa"
    THEN {"electricity_kwh", "lpg_kg_per_month", "car_km_week", "moto_km_week",
          "bus_km_week", "flight_hours"}
    ELSE {"electricity_kwh", "natural_gas_therms", "heating_oil_liters",
          "propane_liters", "car_miles_week", "bus_miles_week", "train_miles_week",
          "flight_hours"}

\* the numeric part of a record: the fields of `varied` are absent or nonzero,
\* the others are present and 0 as in the baseline
NumericRecords(r, varied) ==
    UNION { { [f \in NumericFields(r) \ absent |-> IF f \in varied THEN v[f] ELSE 0] :
              v \in [varied \ absent -> Quantities \ {0}] } :
            absent \in SUBSET varied }

\* diet labels given to the calculator: the six of diet_map and an unknown one
DietInputs == DOMAIN diet_map \cup {"Pescatarian"}

\* countries given to the calculator: the keys of the grid table and an
\* unknown one
CountryInputs == DOMAIN COUNTRY_GRID_MIX \cup {"Atlantis"}

\* the categorical part of a record: a diet, and a country or none
LabelRecords ==
    { [k \in {"diet"} |-> dt] : dt \in DietInputs }
    \cup { [k \in {"diet", "country"} |-> IF k = "diet" THEN dt ELSE c] :
             dt \in DietInputs, c \in CountryInputs }

\* the categorical part of the baseline record: the first diet the page
\* offers for the region; the first real country for africa, none for global
BaselineLabels(r) ==
    IF r = "africa"
    THEN [diet |-> "Typical (Staples + some meat)", country |-> "Nigeria (Gas-dominated)"]
    ELSE [diet |-> "Meat-Heavy"]

\* how many categorical fields differ from the baseline
LabelsVaried(l, r) ==
    LET base == BaselineLabels(r)
    IN  (IF l["diet"] # base["diet"] THEN 1 ELSE 0)
        + (IF DOMAIN l # DOMAIN base THEN 1
           ELSE IF "country" \in DOMAIN l /\ l["country"] # base["country"] THEN 1
           ELSE 0)

\* the records given to the calculator for a region: the baseline record (all
\* quantities 0) with at most MaxVaried fields changed or removed
InputRecords(r) ==
    UNION { { n @@ l : n \in NumericRecords(r, varied),
                       l \in {x \in LabelRecords :
                                LabelsVaried(x, r) + Cardinality(varied) <= MaxVaried} } :
            varied \in {s \in SUBSET NumericFields(r) : Cardinality(s) <= MaxVaried} }

\* no page is involved in a direct call
NoPage ==
    /\ region = "Global"
    /\ widgets = <<>>
    /\ input_data = <<>>
    /\ calculate_button = FALSE
    /\ valid_input = TRUE

Init ==
    /\ NoPage
    /\ pc = "input"
    /\ calc_region \in {"global", "africa"}
    /\ data \in InputRecords(calc_region)
    /\ outcome = "none"
    /\ total = 0
    /\ breakdown = <<>>
    /\ reads = {}
    /\ recommendations = <<>>

\* calculate_carbon_footprint(data, calc_region) runs to its return or raise
Calculate ==
    /\ pc = "input"
    /\ LET res == calculate_carbon_footprint(data, calc_region)
       IN  /\ outcome' = res.outcome
           /\ total' = res.total
           /\ breakdown' = res.breakdown
           /\ reads' = res.reads
    /\ pc' = "calculated"
    /\ UNCHANGED <<region, widgets, input_data, calculate_button, valid_input,
                   data, calc_region, recommendations>>

\* the recommendation rules and the sort run on a returned breakdown
Recommend ==
    /\ pc = "calculated"
    /\ outcome = "ok"
    /\ recommendations' = SortBySaving(Rules(breakdown, data, calc_region))
    /\ pc' = "recommended"
    /\ UNCHANGED <<region, widgets, input_data, calculate_button, valid_input,
                   data, calc_region, outcome, total, breakdown, reads>>

Next == Calculate \/ Recommend

Spec == Init /\ [][Next]_vars

----------------------------------------------------------------------------
(* Vocabulary of the properties *)

\* the call of the engine specification has returned or raised
Called == pc \in {"calculated", "recommended"}

\* the diet labels the page offers for a region
RegionDiets(r) ==
    IF r = "africa"
    THEN {"Typical (Staples + some meat)", "Meat regularly", "Vegetarian", "Vegan"}
    ELSE {"Meat-Heavy", "Average", "Vegetarian", "Vegan"}

\* the breakdown category a numeric field is billed to
Category(r, f) ==
    CASE f = "electricity_kwh" -> "Housing: Electricity"
      [] f = "natural_gas_therms" -> "Housing: Natural Gas"
      [] f = "heating_oil_liters" -> "Housing: Heating Oil"
      [] f = "propane_liters" -> "Housing: Propane"
      [] f = "lpg_kg_per_month" -> "Housing: Cooking (LPG)"
      [] f \in {"car_miles_week", "car_km_week"} -> "Transport: Car"
      [] f = "moto_km_week" -> "Transport: Motorcycle"
      [] f = "bus_miles_week" -> "Transport: Bus"
      [] f = "bus_km_week" -> "Transport: Bus/Minibus"
      [] f = "train_miles_week" -> "Transport: Train"
      [] f = "flight_hours" -> "Transport: Flights"

\* the numeric fields a record holds
Present(d, r) == NumericFields(r) \cap DOMAIN d

\* every quantity the record holds is non-negative
NonNegative(d, r) == \A f \in Present(d, r) : d[f] >= 0

\* the record's diet is one of the region's labels
DietOfRegion(d, r) == "diet" \in DOMAIN d /\ d["diet"] \in RegionDiets(r)

\* an africa record names a country of the grid table other than the sentinel
CountryGiven(d, r) ==
    r = "africa" =>
        /\ "country" \in DOMAIN d
        /\ d["country"] \in DOMAIN COUNTRY_GRID_MIX \ {"Select Country"}

\* a valid non-negative input record of a region
ValidRecord(d, r) == NonNegative(d, r) /\ DietOfRegion(d, r) /\ CountryGiven(d, r)

Keys(b) == {b[i][1] : i \in 1..Len(b)}

RECURSIVE SumOver(_, _)
\* the sum of the values the breakdown holds under the keys of ks
SumOver(b, ks) ==
    IF ks = {} THEN 0
    ELSE LET k == CHOOSE x \in ks : TRUE
         IN  BreakdownGet(b, k) + SumOver(b, ks \ {k})

\* the categories a returned breakdown must hold
ExpectedKeys(d, r) ==
    IF r = "africa"
    THEN {"Housing: Electricity", "Transport: Car", "Transport: Motorcycle",
          "Transport: Bus/Minibus", "Transport: Flights", "Diet"}
         \cup (IF "lpg_kg_per_month" \in DOMAIN d THEN {"Housing: Cooking (LPG)"} ELSE {})
    ELSE {"Housing: Electricity", "Housing: Natural Gas", "Housing: Heating Oil",
          "Housing: Propane", "Transport: Car", "Transport: Bus", "Transport: Train",
          "Transport: Flights", "Diet"}

----------------------------------------------------------------------------
(* Properties *)

\* C1: whenever the calculator returns, in either region, the total equals the
\* sum of the breakdown's values taken once per category, every category of
\* the region is in the breakdown, and none is in it twice.
C1_TotalIsSumOfBreakdown ==
    (Called /\ outcome = "ok") =>
        /\ Keys(breakdown) = ExpectedKeys(data, calc_region)
        /\ Len(breakdown) = Cardinality(Keys(breakdown))
        /\ total = SumOver(breakdown, Keys(breakdown))

\* a valid record with two nonzero quantities was calculated
C1_Witness ==
    /\ Called /\ outcome = "ok" /\ ValidRecord(data, calc_region)
    /\ Cardinality({f \in Present(data, calc_region) : data[f] > 0}) >= 2

\* C2: a call with region africa and country "Select Country" does not return
\* a result (here: even when the record is valid in every other respect).
C2_SentinelCountryRejected ==
    (Called /\ calc_region = "africa" /\ "country" \in DOMAIN data
        /\ data["country"] = "Select Country"
        /\ NonNegative(data, calc_region) /\ DietOfRegion(data, calc_region))
    => outcome # "ok"

\* C3: a call whose diet label is not one of the region's labels does not
\* return a result (here: even when the record is valid in every other
\* respect).
C3_ForeignDietRejected ==
    (Called /\ data["diet"] \notin RegionDiets(calc_region)
        /\ NonNegative(data, calc_region) /\ CountryGiven(data, calc_region))
    => outcome # "ok"

\* C4: a global call with non-negative quantities and a diet of the region
\* returns whichever numeric fields are absent, and each absent field's
\* category is 0.
C4_AbsentFieldCountsZero ==
    (Called /\ calc_region = "global" /\ NonNegative(data, calc_region)
        /\ DietOfRegion(data, calc_region)) =>
        /\ outcome = "ok"
        /\ \A f \in NumericFields("global") \ DOMAIN data :
              BreakdownGet(breakdown, Category("global", f)) = 0

\* C5: a call whose record holds a negative quantity does not return a
\* breakdown (here: even when the record is valid in every other respect).
C5_NegativeQuantityRejected ==
    (Called /\ (\E f \in Present(data, calc_region) : data[f] < 0)
        /\ DietOfRegion(data, calc_region) /\ CountryGiven(data, calc_region))
    => outcome # "ok"

\* the position of a rule in the order of evaluation
RuleIndex(name) ==
    CASE name = "car" -> 1 [] name = "electricity" -> 2 [] name = "lpg" -> 3
      [] name = "diet" -> 4

\* C6: the recommendations are in descending order of saving, and two with
\* the same saving are in the order their rules were evaluated.
C6_RecommendationsSorted ==
    pc = "recommended" =>
        \A i, j \in 1..Len(recommendations) :
            i < j =>
                /\ recommendations[i][2] >= recommendations[j][2]
                /\ recommendations[i][2] = recommendations[j][2] =>
                     RuleIndex(recommendations[i][1]) < RuleIndex(recommendations[j][1])

\* the sort moved a recommendation: the list is not in emission order
C6_Witness ==
    /\ pc = "recommended"
    /\ Len(recommendations) >= 2
    /\ recommendations # Rules(breakdown, data, calc_region)

\* C7: an africa call never reads the global electricity factor and bills
\* electricity at the country's grid factor; a global call never reads the
\* grid table and its result is the same with any country or none.
C7_RegionIsolation ==
    Called =>
        /\ calc_region = "africa" =>
             /\ <<"GLOBAL_EMISSION_FACTORS", "electricity">> \notin reads
             /\ outcome = "ok" =>
                  BreakdownGet(breakdown, "Housing: Electricity")
                    = data["electricity_kwh"] * COUNTRY_GRID_MIX[data["country"]] * 12
        /\ calc_region = "global" =>
             /\ \A e \in reads : e[1] # "COUNTRY_GRID_MIX"
             /\ \A l \in LabelRecords :
                  l["diet"] = data["diet"] =>
                     LET other == [f \in Present(data, "global") |-> data[f]] @@ l
                         res == calculate_carbon_footprint(other, "global")
                     IN  /\ res.outcome = outcome
                         /\ res.total = total
                         /\ res.breakdown = breakdown

\* an africa call returned with electricity billed at a grid factor that is
\* not the global factor
C7_Witness ==
    /\ Called /\ calc_region = "africa" /\ outcome = "ok"
    /\ data["electricity_kwh"] > 0
    /\ COUNTRY_GRID_MIX[data["country"]] # GLOBAL_EMISSION_FACTORS["electricity"]

\* C8: for a valid record whose call returned, raising one numeric field to
\* any larger quantity gives a call that returns with the field's category not
\* smaller and the total not smaller.
C8_Monotone ==
    (Called /\ outcome = "ok" /\ ValidRecord(data, calc_region)) =>
        \A f \in Present(data, calc_region) :
            \A q \in Quantities :
                q > data[f] =>
                    LET res == calculate_carbon_footprint([data EXCEPT ![f] = q],
                                                          calc_region)
                        cat == Category(calc_region, f)
                    IN  /\ res.outcome = "ok"
                        /\ BreakdownGet(res.breakdown, cat) >= BreakdownGet(breakdown, cat)
                        /\ res.total >= total

\* a valid record was calculated and raising its flight hours raises the total
C8_Witness ==
    /\ Called /\ outcome = "ok" /\ ValidRecord(data, calc_region)
    /\ \E q \in Quantities :
          /\ q > data["flight_hours"]
          /\ calculate_carbon_footprint([data EXCEPT !["flight_hours"] = q],
                                        calc_region).total > total

\* C9: the Diet category never exceeds 2000 kg, and the recommendation list
\* holds only the car, electricity and LPG items.
C9_NoDietRecommendation ==
    /\ (Called /\ outcome = "ok") => BreakdownGet(breakdown, "Diet") <= Kg(2000)
    /\ pc = "recommended" =>
         \A i \in 1..Len(recommendations) :
             recommendations[i][1] \in {"car", "electricity", "lpg"}

\* the rules ran for the diet with the largest factor, whose label names meat
C9_Witness ==
    /\ pc = "recommended"
    /\ data["diet"] = "Meat-Heavy"
    /\ BreakdownGet(breakdown, "Diet") = GLOBAL_EMISSION_FACTORS["diet_meat_heavy"] * Qty(365)

\* C10: on the page, a run calls the calculator only when the button was
\* pressed and it is not the case that the region is Africa with the country
\* "Select Country"; no call reads the sentinel's grid factor.
C10_PageCallsOnlyValid ==
    outcome # "none" =>
        /\ calculate_button
        /\ ~(region = "Africa" /\ widgets["country"] = "Select Country")
        /\ <<"COUNTRY_GRID_MIX", "Select Country">> \notin reads

\* the button was pressed with region Africa and a real country, and the
\* calculator returned
C10_Witness ==
    /\ pc = "page" /\ calculate_button /\ region = "Africa"
    /\ outcome = "ok"
    /\ <<"COUNTRY_GRID_MIX", widgets["country"]>> \in reads

====
